---- MODULE Spec2Model ----
(***************************************************************************)
(* Model of the table-aware page serializer of src/api/abbyyrenderer.cpp   *)
(* (TessBaseAPI::GetAbbyyText) and of the table detector of                *)
(* src/api/tableextractor.cpp (ExtractTableJoints, IsPointInsideTable).    *)
(*                                                                         *)
(* Sequences are 1-based here and 0-based in the C++ code: the C++ element *)
(* v[i] is v[i + 1] below.  Indices kept in variables (cur_table_idx,      *)
(* cur_row, prev_row, ...) hold the C++ values.                            *)
(***************************************************************************)
EXTENDS Integers, Sequences, FiniteSets, TLC

VARIABLES
  tesseract_,      \* TessBaseAPI::tesseract_ is not null
  page_res_,       \* TessBaseAPI::page_res_ is not null when GetAbbyyText is called
  recognize,       \* Recognize(monitor): "not run", "ok" (>= 0) or "failed" (< 0)
  document,        \* what the renderer has appended to its output (AppendString)
  handler_result,  \* what AddImageHandler returned: "pending", "true", "false"
  pc,              \* position in GetAbbyyText
  result,          \* what GetAbbyyText returned: "pending", "null", "string"
  image,           \* the page image as the detector sees it
  tables_joints,   \* Joint tables_joints
  x_coords,        \* std::vector<std::vector<int>> x_coords
  y_coords,        \* std::vector<std::vector<int>> y_coords
  seen,            \* words the iterator has passed
  begin,           \* level the iterator position is the beginning of
  final,           \* level the last processed word was the final element of
  prev_col, prev_row, prev_table_idx, cur_table_idx,
  cur_row, cur_col, x, y,   \* locals of the last loop iteration
  lcnt, bcnt, pcnt,
  para_is_ltr,     \* bool para_is_ltr
  paragraph_lang,  \* const char* paragraph_lang, "null" for nullptr
  abbyy_str,       \* the tags written to abbyy_str, in order
  text_words,      \* history: the loop iterations that got past line 269
  mark,            \* Len(abbyy_str) when the last loop iteration started
  kind             \* the word of the last loop iteration: "none" before the
                   \* first, "empty", "blank" or "text"

vars == <<tesseract_, page_res_, recognize, document, handler_result, pc,
          result, image, tables_joints, x_coords, y_coords, seen, begin,
          final, prev_col, prev_row, prev_table_idx, cur_table_idx, cur_row,
          cur_col, x, y, lcnt, bcnt, pcnt, para_is_ltr, paragraph_lang,
          abbyy_str, text_words, mark, kind>>

(***************************************************************************)
(* Bounds of the model.                                                    *)
(***************************************************************************)
MaxWords == 3        \* words of the stream of one page
MaxJoints == 5       \* joint contours of the candidate built in SpecGrid
MaxContourLen == 2   \* points of one joint contour built in SpecGrid

(***************************************************************************)
(* Constants of the program.                                               *)
(***************************************************************************)
MergeTol == 3        \* abs(x[k] - p.x) < 3
MinArea == 50        \* if (area < 50) continue;
RejectJoints == 4    \* if (joints_contours.size() <= 4) continue;

Pt(a, b) == [x |-> a, y |-> b]

Abs(a) == IF a < 0 THEN 0 - a ELSE a

SetMin(S) == CHOOSE m \in S : \A n \in S : m <= n

SetMax(S) == CHOOSE m \in S : \A n \in S : n <= m

Range(s) == {s[i] : i \in 1..Len(s)}

(***************************************************************************)
(* std::sort on a vector<int>.                                             *)
(***************************************************************************)
RECURSIVE InsertSorted(_, _)
InsertSorted(s, v) ==
  IF s = <<>> THEN <<v>>
  ELSE IF v <= Head(s) THEN <<v>> \o s
  ELSE <<Head(s)>> \o InsertSorted(Tail(s), v)

RECURSIVE StdSort(_)
StdSort(s) == IF s = <<>> THEN <<>> ELSE InsertSorted(StdSort(Tail(s)), Head(s))

(***************************************************************************)
(* The grid builder, abbyyrenderer.cpp:189-224.                            *)
(***************************************************************************)
\* a merge test that also merges lines exactly MergeTol apart
NearInclusive(acc, v) == \E k \in 1..Len(acc) : Abs(acc[k] - v) <= MergeTol

\* a merge test one pixel too tight
NearTight(acc, v) == \E k \in 1..Len(acc) : Abs(acc[k] - v) < MergeTol - 1

\* the inner k loop: is v within the tolerance of a coordinate already kept
Near(acc, v) == \E k \in 1..Len(acc) : Abs(acc[k] - v) < MergeTol

\* the l loop over the points of one joint group, from point l on; cs are the
\* coordinates of the group's points on the axis; stops at the first duplicate
RECURSIVE ScanGroup(_, _, _)
ScanGroup(acc, cs, l) ==
  IF l > Len(cs) THEN acc
  ELSE IF Near(acc, cs[l]) THEN acc
  ELSE ScanGroup(Append(acc, cs[l]), cs, l + 1)

XsOf(group) == [l \in 1..Len(group) |-> group[l].x]

YsOf(group) == [l \in 1..Len(group) |-> group[l].y]

\* the j loop, from the last group down to the first
RECURSIVE AccumulateX(_, _, _)
AccumulateX(acc, table, j) ==
  IF j < 1 THEN acc
  ELSE AccumulateX(ScanGroup(acc, XsOf(table[j]), 1), table, j - 1)

RECURSIVE AccumulateY(_, _, _)
AccumulateY(acc, table, j) ==
  IF j < 1 THEN acc
  ELSE AccumulateY(ScanGroup(acc, YsOf(table[j]), 1), table, j - 1)

GridX(table) == StdSort(AccumulateX(<<>>, table, Len(table)))

GridY(table) == StdSort(AccumulateY(<<>>, table, Len(table)))

(***************************************************************************)
(* The detector, tableextractor.cpp:84-125.  A candidate component is      *)
(* [area, off, joints]: its contour area, the offset of its bounding       *)
(* rectangle and the joint contours found in the crop, in crop coordinates.*)
(***************************************************************************)
TranslateGroup(group, off) ==
  [k \in 1..Len(group) |-> Pt(group[k].x + off.x, group[k].y + off.y)]

TranslateJoints(joints, off) ==
  [j \in 1..Len(joints) |-> TranslateGroup(joints[j], off)]

\* a crop is dropped when it has fewer joint contours than the limit
TooFewJointsBelow(joints) == Len(joints) < RejectJoints

\* 105: if (joints_contours.size() <= 4) continue;
TooFewJoints(joints) == Len(joints) <= RejectJoints

RECURSIVE DetectFrom(_, _, _)
DetectFrom(contours, i, acc) ==
  IF i > Len(contours) THEN acc
  ELSE IF contours[i].area < MinArea THEN DetectFrom(contours, i + 1, acc)
  ELSE IF TooFewJoints(contours[i].joints)
       THEN DetectFrom(contours, i + 1, acc)
  ELSE DetectFrom(contours, i + 1,
                  Append(acc, TranslateJoints(contours[i].joints, contours[i].off)))

(***************************************************************************)
(* IsPointInsideTable, tableextractor.cpp:131-144.  cv::boundingRect of a  *)
(* point set is the rectangle (minX, minY, maxX - minX + 1, maxY - minY +  *)
(* 1); cv::Rect::contains is half open: x <= p.x < x + width.              *)
(***************************************************************************)
RECURSIVE Flatten(_)
Flatten(table) == IF table = <<>> THEN <<>> ELSE Head(table) \o Flatten(Tail(table))

BoundingRect(pts) ==
  IF pts = <<>> THEN [x |-> 0, y |-> 0, width |-> 0, height |-> 0]
  ELSE LET xs == {pts[i].x : i \in 1..Len(pts)}
           ys == {pts[i].y : i \in 1..Len(pts)}
       IN  [x |-> SetMin(xs), y |-> SetMin(ys),
            width |-> SetMax(xs) - SetMin(xs) + 1,
            height |-> SetMax(ys) - SetMin(ys) + 1]

Contains(r, p) ==
  /\ r.x <= p.x /\ p.x < r.x + r.width
  /\ r.y <= p.y /\ p.y < r.y + r.height

IsPointInsideTable(px, py, table) ==
  Contains(BoundingRect(Flatten(table)), Pt(px, py))

\* the n loop without its break: the last table containing the point wins
RECURSIVE FindTableNoBreak(_, _, _, _)
FindTableNoBreak(px, py, tables, n) ==
  IF n > Len(tables) THEN -1
  ELSE LET rest == FindTableNoBreak(px, py, tables, n + 1)
       IN  IF rest # -1 THEN rest
           ELSE IF IsPointInsideTable(px, py, tables[n]) THEN n - 1 ELSE -1

\* the n loop of abbyyrenderer.cpp:285-294, from table n on (1-based);
\* the value is the C++ index, -1 when no table contains the point
RECURSIVE FindTable(_, _, _, _)
FindTable(px, py, tables, n) ==
  IF n > Len(tables) THEN -1
  ELSE IF IsPointInsideTable(px, py, tables[n]) THEN n - 1
  ELSE FindTable(px, py, tables, n + 1)

\* a boundary scan that takes a coordinate on a boundary into the cell before
RECURSIVE ScanBoundariesInclusive(_, _, _)
ScanBoundariesInclusive(v, coords, i) ==
  IF i >= Len(coords) THEN 0
  ELSE IF v <= coords[i + 1] THEN i
  ELSE ScanBoundariesInclusive(v, coords, i + 1)

\* the i loops of abbyyrenderer.cpp:307-348, from C++ index i on: the first
\* i with v < coords[i], 0 when the loop ends without one
RECURSIVE ScanBoundaries(_, _, _)
ScanBoundaries(v, coords, i) ==
  IF i >= Len(coords) THEN 0
  ELSE IF v < coords[i + 1] THEN i
  ELSE ScanBoundaries(v, coords, i + 1)

(***************************************************************************)
(* The markup written to abbyy_str, one record per tag: k is "open",       *)
(* "close" or "word" (a complete word span), e the element and n the       *)
(* counter in the tag's id (the word's position in the stream for a span,  *)
(* 0 for tags that carry no id).                                           *)
(***************************************************************************)
Tag(k, e, n) == [k |-> k, e |-> e, n |-> n]

Open(e, n) == Tag("open", e, n)

Close(e) == Tag("close", e, 0)

(***************************************************************************)
(* The stack-based validator that the closing-symmetry property names: it  *)
(* reads the tags in order and keeps the stack of open elements.           *)
(***************************************************************************)
\* what the validator makes of tags s read with the open elements
\* st (innermost last): the stack that is left, or <<"error">> once a close
\* tag does not match the innermost open element
RECURSIVE Validate(_, _)
Validate(s, st) ==
  IF st = <<"error">> THEN st
  ELSE IF s = <<>> THEN st
  ELSE LET t == Head(s)
       IN  IF t.k = "open" THEN Validate(Tail(s), Append(st, t.e))
           ELSE IF t.k = "word" THEN Validate(Tail(s), st)
           ELSE IF st # <<>> /\ st[Len(st)] = t.e
                THEN Validate(Tail(s), SubSeq(st, 1, Len(st) - 1))
           ELSE <<"error">>

WellFormed(s) == Validate(s, <<>>) = <<>>

\* the elements still open after tags s, innermost last
OpenElements(s) == Validate(s, <<>>)

(***************************************************************************)
(* The inputs: page images as the detector's contour search sees them, and *)
(* the bounding boxes of the words of the stream.                          *)
(***************************************************************************)
Single(pts) == [j \in 1..Len(pts) |-> <<pts[j]>>]

\* the joints of a ruled grid with the same n lines on both axes, one pixel
\* each, found row by row
JointsByRows(lines) ==
  LET n == Len(lines)
  IN  [j \in 1..(n * n) |-> <<Pt(lines[((j - 1) % n) + 1], lines[((j - 1) \div n) + 1])>>]

\* the same joints found column by column
JointsByColumns(lines) ==
  LET n == Len(lines)
  IN  [j \in 1..(n * n) |-> <<Pt(lines[((j - 1) \div n) + 1], lines[((j - 1) % n) + 1])>>]

Reverse(s) == [j \in 1..Len(s) |-> s[Len(s) + 1 - j]]

\* a ruled 2x2 table: three lines per axis, nine one-pixel joints
CandA == [area |-> 400, off |-> Pt(10, 10), joints |-> JointsByRows(<<0, 10, 20>>)]

\* a slightly skewed table whose bounding rectangle overlaps that of CandA
CandB ==
  [area |-> 300, off |-> Pt(28, 28),
   joints |-> Single(<<Pt(0, 0), Pt(0, 12), Pt(12, 13),
                       Pt(0, 22), Pt(12, 22), Pt(12, 1)>>)]

\* a blob below the area threshold with enough joints
SmallBlob ==
  [area |-> 49, off |-> Pt(60, 60),
   joints |-> Single(<<Pt(0, 0), Pt(3, 0), Pt(0, 3), Pt(3, 3), Pt(6, 3)>>)]

\* a single ruled box: four joints
RuledBox ==
  [area |-> 50, off |-> Pt(60, 0),
   joints |-> Single(<<Pt(0, 0), Pt(9, 0), Pt(0, 9), Pt(9, 9)>>)]

Unreadable == [loaded |-> FALSE, contours |-> <<>>]

TextOnly == [loaded |-> TRUE, contours |-> <<SmallBlob, RuledBox>>]

TwoTables == [loaded |-> TRUE, contours |-> <<SmallBlob, CandA, RuledBox, CandB>>]

Images == {Unreadable, TextOnly, TwoTables}

Box(l, t, r, b) == [left |-> l, top |-> t, right |-> r, bottom |-> b]

\* centers: (15,15), (25,15), (15,25), (30,15), (35,28), (30,29), (50,5)
Boxes ==
  {Box(12, 13, 19, 18), Box(22, 13, 29, 18), Box(12, 23, 19, 28),
   Box(28, 13, 33, 18), Box(32, 26, 39, 31), Box(28, 27, 33, 32),
   Box(47, 2, 54, 9)}

\* the words "A", "B", "C", "D" of the 2x2 scenario, one per cell of CandA
\* what the iterator reports for a paragraph: its direction and the
\* recognition language of its first word
Paragraphs == {[ltr |-> TRUE, lang |-> "null"], [ltr |-> FALSE, lang |-> "ara"]}

ScenarioBoxes ==
  <<Box(12, 13, 19, 18), Box(22, 13, 29, 18),
    Box(12, 23, 19, 28), Box(22, 23, 29, 28)>>

(***************************************************************************)
(* The state when GetAbbyyText is called.                                  *)
(***************************************************************************)
InitWith(img, tess, res) ==
  /\ tesseract_ = tess
  /\ page_res_ = res
  /\ recognize = "not run"
  /\ document = <<>>
  /\ handler_result = "pending"
  /\ pc = "start"
  /\ result = "pending"
  /\ image = img
  /\ tables_joints = <<>>
  /\ x_coords = <<>>
  /\ y_coords = <<>>
  /\ seen = 0
  /\ begin = 3
  /\ final = 0
  /\ prev_col = 0
  /\ prev_row = 0
  /\ prev_table_idx = -1
  /\ cur_table_idx = -1
  /\ cur_row = 0
  /\ cur_col = 0
  /\ x = 0
  /\ y = 0
  /\ lcnt = 1
  /\ bcnt = 1
  /\ pcnt = 1
  /\ para_is_ltr = TRUE
  /\ paragraph_lang = "null"
  /\ abbyy_str = <<>>
  /\ text_words = 0
  /\ mark = 0
  /\ kind = "none"

Init == \E img \in Images, tess, res \in BOOLEAN : InitWith(img, tess, res)

walkVars == <<seen, begin, final, prev_col, prev_row, prev_table_idx,
              cur_table_idx, cur_row, cur_col, x, y, lcnt, bcnt, pcnt,
              para_is_ltr, paragraph_lang, text_words, mark, kind>>

apiVars == <<tesseract_, page_res_, recognize>>

rendererVars == <<document, handler_result>>

(***************************************************************************)
(* GetAbbyyText, abbyyrenderer.cpp:141-183: the null return, or the page's *)
(* opening tag.                                                            *)
(***************************************************************************)
\* 141-143: tesseract_ is null, or page_res_ is null and Recognize, which is
\* called in that case only, returns a negative value
ReturnNull ==
  /\ pc = "start"
  /\ ~(tesseract_ /\ page_res_)
  /\ recognize' = IF tesseract_ THEN "failed" ELSE recognize
  /\ result' = "null"
  /\ pc' = "returned"
  /\ UNCHANGED <<tesseract_, page_res_, image, tables_joints, x_coords,
                 y_coords, abbyy_str>>
  /\ UNCHANGED rendererVars
  /\ UNCHANGED walkVars

\* 141-183: past the check of line 141, with Recognize run and successful
\* when page_res_ was null
OpenPage ==
  /\ pc = "start"
  /\ tesseract_
  /\ recognize' = IF page_res_ THEN recognize ELSE "ok"
  /\ abbyy_str' = Append(abbyy_str, Open("page", 0))
  /\ pc' = "detect"
  /\ UNCHANGED <<tesseract_, page_res_, result, image, tables_joints,
                 x_coords, y_coords>>
  /\ UNCHANGED rendererVars
  /\ UNCHANGED walkVars

(***************************************************************************)
(* ExtractTableJoints, tableextractor.cpp:15-129.                          *)
(***************************************************************************)
\* the image was read: the loop over the candidate components
ExtractTableJoints ==
  /\ pc = "detect"
  /\ image.loaded
  /\ tables_joints' = DetectFrom(image.contours, 1, <<>>)
  /\ pc' = "grid"
  /\ UNCHANGED <<result, image, x_coords, y_coords, abbyy_str>>
  /\ UNCHANGED walkVars
  /\ UNCHANGED apiVars
  /\ UNCHANGED rendererVars

\* cv::imread failed: the function reports it and goes on with the empty
\* matrix.  It has 0 columns and rows, so horizontalsize and verticalsize are
\* 0 and cv::getStructuringElement is asked for a kernel of size 0: the
\* library raises cv::Exception there (nothing in GetAbbyyText catches it),
\* or, in a build that tolerates the empty input, no contour is found.
ExtractFromUnreadable ==
  /\ pc = "detect"
  /\ ~image.loaded
  /\ \E raised \in BOOLEAN :
       /\ pc' = IF raised THEN "aborted" ELSE "grid"
       /\ tables_joints' = <<>>
  /\ UNCHANGED <<result, image, x_coords, y_coords, abbyy_str>>
  /\ UNCHANGED walkVars
  /\ UNCHANGED apiVars
  /\ UNCHANGED rendererVars

(***************************************************************************)
(* The grid builder loop, abbyyrenderer.cpp:189-224.                       *)
(***************************************************************************)
\* the grids pushed in the reverse order of the regions
BuildGridsReversed ==
  /\ pc = "grid"
  /\ x_coords' = [i \in 1..Len(tables_joints) |-> GridX(tables_joints[Len(tables_joints) + 1 - i])]
  /\ y_coords' = [i \in 1..Len(tables_joints) |-> GridY(tables_joints[Len(tables_joints) + 1 - i])]
  /\ pc' = "walk"
  /\ UNCHANGED <<result, image, tables_joints, abbyy_str>>
  /\ UNCHANGED walkVars
  /\ UNCHANGED apiVars
  /\ UNCHANGED rendererVars

BuildGrids ==
  /\ pc = "grid"
  /\ x_coords' = [i \in 1..Len(tables_joints) |-> GridX(tables_joints[i])]
  /\ y_coords' = [i \in 1..Len(tables_joints) |-> GridY(tables_joints[i])]
  /\ pc' = "walk"
  /\ UNCHANGED <<result, image, tables_joints, abbyy_str>>
  /\ UNCHANGED walkVars
  /\ UNCHANGED apiVars
  /\ UNCHANGED rendererVars

(***************************************************************************)
(* The word loop, abbyyrenderer.cpp:260-587.  The iterator is modelled by  *)
(* what the loop reads from it: begin is the highest level the current     *)
(* word is at the beginning of (0 word, 1 line, 2 paragraph, 3 block) and  *)
(* fin the highest level it is the final word of; the word after a word    *)
(* that is final at a level is at the beginning of that level.  The stream *)
(* can only end after a word that is final in its block.                   *)
(***************************************************************************)
FinalLevels(limit) == IF seen + 1 >= limit THEN {3} ELSE 0..3

\* a block without words takes a block number
SkipEmptyWordCounted ==
  /\ pc = "walk"
  /\ seen < MaxWords
  /\ begin = 3
  /\ seen' = seen + 1
  /\ mark' = Len(abbyy_str)
  /\ kind' = "empty"
  /\ bcnt' = bcnt + 1
  /\ UNCHANGED <<pc, result, image, tables_joints, x_coords, y_coords, begin,
                 final, prev_col, prev_row, prev_table_idx, cur_table_idx,
                 cur_row, cur_col, x, y, lcnt, pcnt, para_is_ltr,
                 paragraph_lang, text_words, abbyy_str>>
  /\ UNCHANGED apiVars
  /\ UNCHANGED rendererVars

\* a block without words is skipped without res_it->Next(RIL_WORD)
SkipEmptyWordInPlace ==
  /\ pc = "walk"
  /\ seen < MaxWords
  /\ begin = 3
  /\ seen' = seen
  /\ mark' = Len(abbyy_str)
  /\ kind' = "empty"
  /\ UNCHANGED <<pc, result, image, tables_joints, x_coords, y_coords, begin,
                 final, prev_col, prev_row, prev_table_idx, cur_table_idx,
                 cur_row, cur_col, x, y, lcnt, bcnt, pcnt, para_is_ltr,
                 paragraph_lang, text_words, abbyy_str>>
  /\ UNCHANGED apiVars
  /\ UNCHANGED rendererVars

\* 261-264: a block without words
SkipEmptyWord ==
  /\ pc = "walk"
  /\ seen < MaxWords
  /\ begin = 3
  /\ seen' = seen + 1
  /\ mark' = Len(abbyy_str)
  /\ kind' = "empty"
  /\ UNCHANGED <<pc, result, image, tables_joints, x_coords, y_coords, begin,
                 final, prev_col, prev_row, prev_table_idx, cur_table_idx,
                 cur_row, cur_col, x, y, lcnt, bcnt, pcnt, para_is_ltr,
                 paragraph_lang, text_words, abbyy_str>>
  /\ UNCHANGED apiVars
  /\ UNCHANGED rendererVars

\* the check for white space placed after the block opening of 272-278
SkipBlankWordAfterBlockOpen ==
  /\ pc = "walk"
  /\ seen < MaxWords
  /\ \E fin \in FinalLevels(MaxWords) : begin' = fin
  /\ seen' = seen + 1
  /\ mark' = Len(abbyy_str)
  /\ kind' = "blank"
  /\ UNCHANGED <<pc, result, image, tables_joints, x_coords, y_coords,
                 final, prev_col, prev_row, prev_table_idx, cur_table_idx,
                 cur_row, cur_col, x, y, lcnt, bcnt, pcnt, para_is_ltr,
                 paragraph_lang, text_words>>
  /\ abbyy_str' = abbyy_str \o (IF begin = 3 THEN <<Open("block", bcnt)>> ELSE <<>>)
  /\ UNCHANGED apiVars
  /\ UNCHANGED rendererVars

\* 266-269: a word of white space only
SkipBlankWord ==
  /\ pc = "walk"
  /\ seen < MaxWords
  /\ \E fin \in FinalLevels(MaxWords) : begin' = fin
  /\ seen' = seen + 1
  /\ mark' = Len(abbyy_str)
  /\ kind' = "blank"
  /\ UNCHANGED <<pc, result, image, tables_joints, x_coords, y_coords,
                 final, prev_col, prev_row, prev_table_idx, cur_table_idx,
                 cur_row, cur_col, x, y, lcnt, bcnt, pcnt, para_is_ltr,
                 paragraph_lang, text_words, abbyy_str>>
  /\ UNCHANGED apiVars
  /\ UNCHANGED rendererVars

\* the cursors are kept when the table index changes
CursorKept(changed, prev) == prev

\* 295-300: prev_row and prev_col when the table index changed, or not
CursorAfter(changed, prev) == IF changed THEN 0 ELSE prev

\* a row or cell is opened when the index differs from the cursor
AdvancesOnChange(prev, cur) == cur # 0 /\ prev # cur

\* 313 and 337: a boundary above the coordinate was found (cur is not 0) and
\* the cursor is below the index found
Advances(prev, cur) == cur # 0 /\ prev < cur

\* 271-586: one word with bounding box box that is final at level fin; par is
\* what the iterator reports for the word's paragraph (ParagraphIsLtr and
\* WordRecognitionLanguage)
WordStep(box, fin, par) ==
  LET wx == (box.left + box.right) \div 2
      wy == (box.top + box.bottom) \div 2
      cti == FindTable(wx, wy, tables_joints, 1)
      \* 272-278
      blockOpen == IF begin = 3 THEN <<Open("block", bcnt)>> ELSE <<>>
      \* 295-300
      changed == prev_table_idx # cti
      tableClose == IF changed THEN <<Close("table"), Close("tbody")>> ELSE <<>>
      row0 == CursorAfter(changed, prev_row)
      col0 == CursorAfter(changed, prev_col)
      \* 302-305
      tableOpen == IF changed THEN <<Open("table", 0), Open("tbody", 0)>> ELSE <<>>
      \* 307-327
      crow == IF cti = -1 THEN 0 ELSE ScanBoundaries(wy, y_coords[cti + 1], 1)
      newRow == Advances(row0, crow)
      rowTags == IF ~newRow THEN <<>>
                 ELSE (IF row0 # 0 THEN <<Close("tr")>> ELSE <<>>) \o <<Open("tr", 0)>>
      row1 == IF newRow THEN crow ELSE row0
      col1 == IF newRow /\ row0 # 0 THEN 0 ELSE col0
      \* 328-348
      ccol == IF cti = -1 THEN 0 ELSE ScanBoundaries(wx, x_coords[cti + 1], 1)
      newCol == Advances(col1, ccol)
      colTags == IF ~newCol THEN <<>>
                 ELSE (IF col1 # 0 THEN <<Close("td")>> ELSE <<>>) \o <<Open("td", 0)>>
      col2 == IF newCol THEN ccol ELSE col1
      span == <<Tag("word", "span", seen + 1)>>
      \* 301-380
      inTable == tableOpen \o rowTags \o colTags \o span
      \* 381-477
      inFlow == (IF begin >= 2 THEN <<Open("p", pcnt)>> ELSE <<>>)
                \o (IF begin >= 1 THEN <<Open("line", lcnt)>> ELSE <<>>)
                \o span
      \* 574-586
      lineClose == IF fin >= 1 /\ cti = -1 THEN <<Close("line")>> ELSE <<>>
      paraClose == IF fin >= 2 /\ cti = -1 THEN <<Close("p")>> ELSE <<>>
      blockClose == IF fin = 3 THEN <<Close("block")>> ELSE <<>>
      \* 273, 384, 581
      ltr0 == IF begin = 3 THEN TRUE ELSE para_is_ltr
      ltr1 == IF cti = -1 /\ begin >= 2 THEN par.ltr ELSE ltr0
      ltr2 == IF fin >= 2 /\ cti = -1 THEN TRUE ELSE ltr1
  IN  /\ x' = wx
      /\ y' = wy
      /\ cur_table_idx' = cti
      /\ cur_row' = crow
      /\ cur_col' = ccol
      /\ prev_row' = IF cti = -1 THEN row0 ELSE row1
      /\ prev_col' = IF cti = -1 THEN col0 ELSE col2
      /\ prev_table_idx' = cti
      /\ abbyy_str' = abbyy_str \o blockOpen \o tableClose
                        \o (IF cti # -1 THEN inTable ELSE inFlow)
                        \o lineClose \o paraClose \o blockClose
      /\ lcnt' = IF fin >= 1 /\ cti = -1 THEN lcnt + 1 ELSE lcnt
      /\ pcnt' = IF fin >= 2 /\ cti = -1 THEN pcnt + 1 ELSE pcnt
      /\ bcnt' = IF fin = 3 THEN bcnt + 1 ELSE bcnt
      /\ para_is_ltr' = ltr2
      /\ paragraph_lang' = IF cti = -1 /\ begin >= 2 THEN par.lang ELSE paragraph_lang
      /\ final' = fin
      /\ begin' = fin
      /\ seen' = seen + 1
      /\ text_words' = text_words + 1
      /\ mark' = Len(abbyy_str)
      /\ kind' = "text"
      /\ UNCHANGED <<pc, result, image, tables_joints, x_coords, y_coords>>
      /\ UNCHANGED apiVars
      /\ UNCHANGED rendererVars

ProcessWord ==
  /\ pc = "walk"
  /\ seen < MaxWords
  /\ \E box \in Boxes, fin \in FinalLevels(MaxWords), par \in Paragraphs :
       WordStep(box, fin, par)

\* 260, 588-597: the iterator is at the end of the page
ClosePage ==
  /\ pc = "walk"
  /\ begin = 3
  /\ abbyy_str' = Append(abbyy_str, Close("page"))
  /\ result' = "string"
  /\ pc' = "done"
  /\ UNCHANGED <<image, tables_joints, x_coords, y_coords>>
  /\ UNCHANGED walkVars
  /\ UNCHANGED apiVars
  /\ UNCHANGED rendererVars

(***************************************************************************)
(* TessAbbyyRenderer::AddImageHandler, abbyyrenderer.cpp:644-651, once the *)
(* call of GetAbbyyText has returned.                                      *)
(***************************************************************************)
AddImageHandler ==
  /\ pc \in {"returned", "done"}
  /\ handler_result' = IF result = "null" THEN "false" ELSE "true"
  /\ document' = IF result = "null" THEN document ELSE document \o abbyy_str
  /\ pc' = "handled"
  /\ UNCHANGED <<result, image, tables_joints, x_coords, y_coords, abbyy_str>>
  /\ UNCHANGED apiVars
  /\ UNCHANGED walkVars

Next ==
  \/ ReturnNull
  \/ OpenPage
  \/ ExtractTableJoints
  \/ ExtractFromUnreadable
  \/ BuildGrids
  \/ SkipEmptyWord
  \/ SkipBlankWord
  \/ ProcessWord
  \/ ClosePage
  \/ AddImageHandler

Spec == Init /\ [][Next]_vars

\* 260-588: the word loop runs on the caller's thread and waits for nothing:
\* while an iteration, or the exit of the loop, can be taken, one is taken
WordLoop == SkipEmptyWord \/ SkipBlankWord \/ ProcessWord \/ ClosePage

\* the calls that reach the word loop: the recognizer and the page results
\* are there and the image is read
InitLive == \E img \in {TextOnly, TwoTables} : InitWith(img, TRUE, TRUE)

NextLive ==
  \/ OpenPage
  \/ ExtractTableJoints
  \/ BuildGrids
  \/ SkipEmptyWord
  \/ SkipBlankWord
  \/ ProcessWord
  \/ ClosePage

SpecLive == InitLive /\ [][NextLive]_vars /\ WF_vars(WordLoop)

(***************************************************************************)
(* The 2x2 scenario: the image holds the one table CandA and the stream    *)
(* the words "A", "B", "C", "D"; their split into blocks, paragraphs and   *)
(* lines is free.                                                          *)
(***************************************************************************)
ScenarioImages ==
  {[loaded |-> TRUE, contours |-> <<[CandA EXCEPT !.joints = js]>>] :
     js \in {CandA.joints, Reverse(CandA.joints), JointsByColumns(<<0, 10, 20>>)}}

InitScenario == \E img \in ScenarioImages, res \in BOOLEAN : InitWith(img, TRUE, res)

ScenarioWord ==
  /\ pc = "walk"
  /\ seen < Len(ScenarioBoxes)
  /\ \E fin \in FinalLevels(Len(ScenarioBoxes)), par \in Paragraphs :
       WordStep(ScenarioBoxes[seen + 1], fin, par)

NextScenario ==
  \/ OpenPage
  \/ ExtractTableJoints
  \/ BuildGrids
  \/ ScenarioWord
  \/ ClosePage

SpecScenario == InitScenario /\ [][NextScenario]_vars

(***************************************************************************)
(* The grid builder on the joints of one candidate component.  The joint   *)
(* contours that cv::findContours reports for the crop (tableextractor.cpp *)
(* 101-102) are built here one contour and one point at a time, from the   *)
(* pixels JointPixels, in every order; no pixel is on two contours.  A     *)
(* ruled grid of 4 lines per axis with its 16 joints is a further input.    *)
(***************************************************************************)
JointPixels == {Pt(0, 0), Pt(0, 3), Pt(0, 6), Pt(0, 9), Pt(5, 0), Pt(2, 1)}

GridOffset == Pt(10, 20)

LatticeLines == <<0, 4, 8, 12>>

GridImages ==
  {[loaded |-> TRUE,
    contours |-> <<[area |-> MinArea, off |-> GridOffset, joints |-> js]>>] :
     js \in {<<>>, JointsByRows(LatticeLines), JointsByColumns(LatticeLines)}}

InitGrid ==
  /\ tesseract_ = TRUE
  /\ page_res_ = TRUE
  /\ recognize = "not run"
  /\ document = <<>>
  /\ handler_result = "pending"
  /\ pc = "detect"
  /\ result = "pending"
  /\ image \in GridImages
  /\ tables_joints = <<>>
  /\ x_coords = <<>>
  /\ y_coords = <<>>
  /\ seen = 0
  /\ begin = 3
  /\ final = 0
  /\ prev_col = 0
  /\ prev_row = 0
  /\ prev_table_idx = -1
  /\ cur_table_idx = -1
  /\ cur_row = 0
  /\ cur_col = 0
  /\ x = 0
  /\ y = 0
  /\ lcnt = 1
  /\ bcnt = 1
  /\ pcnt = 1
  /\ para_is_ltr = TRUE
  /\ paragraph_lang = "null"
  /\ abbyy_str = <<Open("page", 0)>>
  /\ text_words = 0
  /\ mark = 0
  /\ kind = "none"

PixelsOn(joints) == UNION {Range(joints[j]) : j \in 1..Len(joints)}

\* one more joint contour, of one pixel
FindJointContour ==
  /\ pc = "detect"
  /\ Len(image.contours[1].joints) < MaxJoints
  /\ \E p \in JointPixels \ PixelsOn(image.contours[1].joints) :
       image' = [image EXCEPT !.contours[1].joints = Append(@, <<p>>)]
  /\ UNCHANGED <<pc, result, tables_joints, x_coords, y_coords, abbyy_str>>
  /\ UNCHANGED walkVars
  /\ UNCHANGED apiVars
  /\ UNCHANGED rendererVars

\* one more point on the contour found last
GrowJointContour ==
  /\ pc = "detect"
  /\ Len(image.contours[1].joints) \in 1..MaxJoints
  /\ Len(image.contours[1].joints[Len(image.contours[1].joints)]) < MaxContourLen
  /\ \E p \in JointPixels \ PixelsOn(image.contours[1].joints) :
       image' = [image EXCEPT
                   !.contours[1].joints[Len(image.contours[1].joints)] = Append(@, p)]
  /\ UNCHANGED <<pc, result, tables_joints, x_coords, y_coords, abbyy_str>>
  /\ UNCHANGED walkVars
  /\ UNCHANGED apiVars
  /\ UNCHANGED rendererVars

NextGrid ==
  \/ FindJointContour
  \/ GrowJointContour
  \/ ExtractTableJoints
  \/ BuildGrids

SpecGrid == InitGrid /\ [][NextGrid]_vars

(***************************************************************************)
(* Vocabulary of the claims.                                               *)
(***************************************************************************)
\* the tags written by the last loop iteration (read in the walk)
Emitted == SubSeq(abbyy_str, mark + 1, Len(abbyy_str))

Opens(s, e) == \E i \in 1..Len(s) : s[i].k = "open" /\ s[i].e = e

\* the joint points of a table region
PointsOf(table) == UNION {Range(table[j]) : j \in 1..Len(table)}

\* (px, py) is within the extreme coordinates of the region's joint points,
\* the extremes included
WithinExtremes(px, py, table) ==
  LET P == PointsOf(table)
  IN  /\ \E q \in P : q.x <= px
      /\ \E q \in P : px <= q.x
      /\ \E q \in P : q.y <= py
      /\ \E q \in P : py <= q.y

\* adjacent entries of s differ by at least the tolerance
GapsAtLeastTol(s) == \A k \in 1..(Len(s) - 1) : s[k + 1] - s[k] >= MergeTol

\* the coordinates of the joints of a region on each axis
XLines(table) == {p.x : p \in PointsOf(table)}

YLines(table) == {p.y : p \in PointsOf(table)}

Apart(S) == \A a, b \in S : a # b => Abs(a - b) >= MergeTol

\* every joint group lies on one vertical and one horizontal ruling line, and
\* the ruling lines of an axis are at least the tolerance apart
OnRulingLines(table) ==
  /\ \A j \in 1..Len(table) : \A p, q \in Range(table[j]) : p = q
  /\ Apart(XLines(table))
  /\ Apart(YLines(table))

\* the least index i >= 1 (C++) of boundaries with v < boundaries[i], else 0
LeastAbove(v, boundaries) ==
  LET I == {i \in 1..(Len(boundaries) - 1) : v < boundaries[i + 1]}
  IN  IF I = {} THEN 0 ELSE SetMin(I)

IsTableMarkup(t) == t.e \in {"table", "tr", "td", "span"}

\* a cell holding word n, and a row of two cells holding words n and n + 1
CellOf(n) == <<Open("td", 0), Tag("word", "span", n), Close("td")>>

RowOf(n) == <<Open("tr", 0)>> \o CellOf(n) \o CellOf(n + 1) \o <<Close("tr")>>

(***************************************************************************)
(* The claims.                                                             *)
(***************************************************************************)
\* C1: the markup of a finished page is well-formed: a stack-based validator
\* accepts the tags of the page, every open tag has its close and no close
\* comes without its open.
C1_PageWellFormed == pc = "done" => WellFormed(abbyy_str)

\* C2: in the 2x2 scenario with the four words A, B, C, D, the table markup of
\* the finished page is one table element holding two rows of two cells, with
\* A, B in the cells of the first row and C, D in those of the second.
C2_Scenario2x2 ==
  (pc = "done" /\ seen = Len(ScenarioBoxes))
    => SelectSeq(abbyy_str, IsTableMarkup)
         = <<Open("table", 0)>> \o RowOf(1) \o RowOf(3) \o <<Close("table")>>

\* C3: the x- and y-boundary lists of every table region are strictly
\* increasing and adjacent boundaries differ by at least the tolerance of 3.
C3_GridGaps ==
  \A i \in 1..Len(x_coords) :
    GapsAtLeastTol(x_coords[i]) /\ GapsAtLeastTol(y_coords[i])

\* C3 witness: a grid was built from a region with two joints less than the
\* tolerance apart on the y axis, and it has several boundaries on it.
C3_Witness ==
  /\ pc = "walk"
  /\ Len(y_coords) = 1
  /\ Len(y_coords[1]) >= 3
  /\ \E a, b \in YLines(tables_joints[1]) : a # b /\ Abs(a - b) < MergeTol

C5_TwoBoundariesPerAxis ==
  \A i \in 1..Len(x_coords) :
    Len(tables_joints[i]) > RejectJoints
      => Len(x_coords[i]) >= 2 /\ Len(y_coords[i]) >= 2

\* C6: the table index of a word is the lowest index of a region whose joint
\* points' extreme coordinates enclose the word's center, edges included, and
\* -1 when no region does.
C6_Membership ==
  kind = "text" =>
    LET N == {n \in 1..Len(tables_joints) : WithinExtremes(x, y, tables_joints[n])}
    IN  cur_table_idx = IF N = {} THEN -1 ELSE SetMin(N) - 1

\* C6 witness: a word whose center is on the right edge of the first region's
\* rectangle and also inside the second region's rectangle got index 0.
C6_Witness ==
  /\ kind = "text"
  /\ Len(tables_joints) = 2
  /\ WithinExtremes(x, y, tables_joints[1])
  /\ WithinExtremes(x, y, tables_joints[2])
  /\ x = SetMax(XLines(tables_joints[1]))
  /\ cur_table_idx = 0

\* C7: the row (column) index of a word in a table is the least i >= 1 with
\* y < yBoundary[i] (x < xBoundary[i]); a word at or beyond the last boundary
\* of an axis gets index 0 there and no row (cell) is opened for it.
C7_CellIndex ==
  (pc = "walk" /\ kind = "text" /\ cur_table_idx # -1) =>
    LET yb == y_coords[cur_table_idx + 1]
        xb == x_coords[cur_table_idx + 1]
    IN  /\ cur_row = LeastAbove(y, yb)
        /\ cur_col = LeastAbove(x, xb)
        /\ ((yb # <<>> /\ y >= yb[Len(yb)]) => (cur_row = 0 /\ ~Opens(Emitted, "tr")))
        /\ ((xb # <<>> /\ x >= xb[Len(xb)]) => (cur_col = 0 /\ ~Opens(Emitted, "td")))

\* C7 witness: a word in the first table with its center on the last x
\* boundary: it has a row and no column.
C7_Witness ==
  /\ pc = "walk"
  /\ kind = "text"
  /\ cur_table_idx = 0
  /\ x = x_coords[1][Len(x_coords[1])]
  /\ cur_row >= 1
  /\ cur_col = 0

\* C8: a word in a table with row index i >= 1 has yBoundary[i-1] <= y <
\* yBoundary[i], and one with column index i >= 1 has xBoundary[i-1] <= x <
\* xBoundary[i].
C8_CenterInCell ==
  (kind = "text" /\ cur_table_idx # -1) =>
    LET yb == y_coords[cur_table_idx + 1]
        xb == x_coords[cur_table_idx + 1]
    IN  /\ (cur_row >= 1 => (yb[cur_row] <= y /\ y < yb[cur_row + 1]))
        /\ (cur_col >= 1 => (xb[cur_col] <= x /\ x < xb[cur_col + 1]))

\* C9: once the last word of a block is processed, every table, tbody, row,
\* cell, paragraph and line has been closed, innermost first, and the block
\* after them: only the page is still open.
C9_BlockEndClosesAll ==
  (pc = "walk" /\ kind = "text" /\ final = 3) => OpenElements(abbyy_str) = <<"page">>

\* C10: when the page image fails to load, the call is not aborted: detection
\* gives zero regions and every word is serialized outside any table.
C10_UnreadableImageDegrades ==
  ~image.loaded =>
    /\ pc # "aborted"
    /\ tables_joints = <<>>
    /\ cur_table_idx = -1

\* C11: GetAbbyyText returns null exactly when there is no recognizer
\* instance, or no page results exist and recognition fails, and in every
\* other case the call ends with a non-null string; AddImageHandler returns
\* false and appends nothing for a null result, and appends the string and
\* returns true otherwise.
EntryFails == ~tesseract_ \/ (~page_res_ /\ recognize = "failed")

C11_NullExactlyOnEntryFailure ==
  /\ pc \in {"returned", "done", "aborted", "handled"} =>
        result = (IF EntryFails THEN "null" ELSE "string")
  /\ pc = "handled" =>
        /\ result = "null" => handler_result = "false" /\ document = <<>>
        /\ result = "string" => handler_result = "true" /\ document = abbyy_str

\* C12: when the word stream is empty or holds only empty and white-space
\* words, the returned page is exactly one page element opened and closed,
\* with no block, paragraph, line, table, row, cell or word markup.
C12_NoWordsMinimalPage ==
  (result = "string" /\ text_words = 0) =>
     abbyy_str = <<Open("page", 0), Close("page")>>

\* a finished page whose stream held an empty block and white-space words
C12_Witness ==
  /\ pc = "done"
  /\ text_words = 0
  /\ seen >= 2
  /\ kind = "blank"
  /\ abbyy_str = <<Open("page", 0), Close("page")>>

\* C13: from one word to the next with the same table index the row cursor
\* prev_row never decreases, and with the same open row the column cursor
\* prev_col never decreases; a cursor is below its value before the word (it
\* was reset to zero for the word) only when the table index changed, and the
\* column cursor also when the word opened a new row.
CursorsAdvance ==
  /\ prev_table_idx' = prev_table_idx =>
        /\ prev_row' >= prev_row
        /\ prev_row' = prev_row => prev_col' >= prev_col
  /\ prev_row' < prev_row => prev_table_idx' # prev_table_idx
  /\ prev_col' < prev_col =>
        prev_table_idx' # prev_table_idx \/ prev_row' > prev_row

C13_CursorsMonotone == [][CursorsAdvance]_vars

\* a word of the open table that opened the second row after a cell of the
\* first: the column cursor went back to zero and on to the word's column
C13_Witness ==
  /\ pc = "walk"
  /\ kind = "text"
  /\ cur_table_idx # -1
  /\ ~Opens(Emitted, "table")
  /\ Emitted[1] = Close("tr")
  /\ prev_row = 2
  /\ prev_col = 1

\* C14: the table and tbody close tags are written only on a step that leaves
\* an open table: the table index before the word is a table and differs from
\* the word's; a word that goes from no table to a table writes none.
WrittenByStep == SubSeq(abbyy_str', Len(abbyy_str) + 1, Len(abbyy_str'))

TableCloseLeavesOpenTable ==
  (\E i \in 1..Len(WrittenByStep) :
      WrittenByStep[i] \in {Close("table"), Close("tbody")}) =>
     (prev_table_idx # -1 /\ prev_table_idx' # prev_table_idx)

C14_TableCloseOnlyWhenOpen == [][TableCloseLeavesOpenTable]_vars

\* C15: table markup is closed in nesting order: a step that closes a row
\* while a cell is open closes the cell just before the row, and a step that
\* changes the table index while a row and a cell of a table are open writes
\* the closes of the cell, the row, the tbody and the table, in that order.
ClosesInNestingOrder ==
  /\ \A i \in 1..Len(WrittenByStep) :
        (WrittenByStep[i] = Close("tr") /\ prev_col # 0) =>
           (i > 1 /\ WrittenByStep[i - 1] = Close("td"))
  /\ (prev_table_idx # -1 /\ prev_table_idx' # prev_table_idx
        /\ prev_row # 0 /\ prev_col # 0) =>
        \E i \in 1..Len(WrittenByStep) :
           /\ i + 3 <= Len(WrittenByStep)
           /\ SubSeq(WrittenByStep, i, i + 3) =
                <<Close("td"), Close("tr"), Close("tbody"), Close("table")>>

C15_TableClosedInNestingOrder == [][ClosesInNestingOrder]_vars

\* C16: a word whose table index is a table and differs from the index
\* before it gets the table and the tbody open tag exactly once, ahead of its
\* span, and starts from cursors at zero: with a row found it opens a row and
\* with a column found a cell, whatever the cursors were in the table before;
\* a word whose table index is unchanged gets no table or tbody open tag.
CountIn(s, t) == Cardinality({i \in 1..Len(s) : s[i] = t})

PositionIn(s, t) == CHOOSE i \in 1..Len(s) : s[i] = t

TableOpenedOnce ==
  (seen' = seen + 1 /\ kind' = "text") =>
     LET w == WrittenByStep
         span == Tag("word", "span", seen')
     IN  IF prev_table_idx' # prev_table_idx /\ prev_table_idx' # -1
         THEN /\ CountIn(w, Open("table", 0)) = 1
              /\ CountIn(w, Open("tbody", 0)) = 1
              /\ PositionIn(w, Open("table", 0)) < PositionIn(w, Open("tbody", 0))
              /\ PositionIn(w, Open("tbody", 0)) < PositionIn(w, span)
              /\ cur_row' # 0 =>
                    /\ CountIn(w, Open("tr", 0)) = 1
                    /\ PositionIn(w, Open("tbody", 0)) < PositionIn(w, Open("tr", 0))
                    /\ PositionIn(w, Open("tr", 0)) < PositionIn(w, span)
                    /\ prev_row' = cur_row'
              /\ cur_col' # 0 =>
                    /\ CountIn(w, Open("td", 0)) = 1
                    /\ PositionIn(w, Open("tbody", 0)) < PositionIn(w, Open("td", 0))
                    /\ PositionIn(w, Open("td", 0)) < PositionIn(w, span)
                    /\ prev_col' = cur_col'
         ELSE /\ CountIn(w, Open("table", 0)) = 0
              /\ CountIn(w, Open("tbody", 0)) = 0

C16_TableOpenedOnChange == [][TableOpenedOnce]_vars

\* a word that went from one table to the next: a table was opened before it,
\* and it opened table 1 with a row and a cell
C16_Witness ==
  /\ kind = "text"
  /\ cur_table_idx = 1
  /\ Opens(SubSeq(abbyy_str, 1, mark), "td")
  /\ Opens(Emitted, "table")
  /\ Opens(Emitted, "tr")
  /\ Opens(Emitted, "td")
  /\ prev_row = cur_row
  /\ prev_col = cur_col

\* C17: the span of a word in a table is written while a table, a row and a
\* cell are open, and the span of a word outside every table while a block, a
\* paragraph and a line are open.  An element counts as open where the last
\* tag of that element is an open tag.
LastIsOpen(s, e) ==
  \E i \in 1..Len(s) :
     /\ s[i].e = e
     /\ s[i].k = "open"
     /\ \A j \in (i + 1)..Len(s) : s[j].e # e

BeforeSpan ==
  SubSeq(abbyy_str, 1, PositionIn(abbyy_str, Tag("word", "span", seen)) - 1)

C17_SpanInsideContainer ==
  kind = "text" =>
     IF cur_table_idx # -1
     THEN \A e \in {"table", "tr", "td"} : LastIsOpen(BeforeSpan, e)
     ELSE \A e \in {"block", "p", "line"} : LastIsOpen(BeforeSpan, e)

\* C18: the step of a word whose center is in a table writes no paragraph or
\* line tag, open or close, and leaves pcnt, lcnt, para_is_ltr and
\* paragraph_lang as they were.
FlowStateKept ==
  (seen' = seen + 1 /\ kind' = "text" /\ cur_table_idx' # -1) =>
     /\ \A i \in 1..Len(WrittenByStep) : WrittenByStep[i].e \notin {"p", "line"}
     /\ pcnt' = pcnt
     /\ lcnt' = lcnt
     /\ para_is_ltr' = para_is_ltr
     /\ paragraph_lang' = paragraph_lang

C18_FlowSuppressedInTables == [][FlowStateKept]_vars

\* C19: the regions the detector returns are, in discovery order, those of
\* the candidates with contour area of at least 50 and at least 5 joint
\* groups, and no others; each region has its candidate's joint groups with
\* every point moved by the offset of the candidate's bounding rectangle.
Qualifies(c) == c.area >= MinArea /\ Len(c.joints) >= RejectJoints + 1

Accepted == {i \in 1..Len(image.contours) : Qualifies(image.contours[i])}

Rank(i) == Cardinality({j \in Accepted : j <= i})

C19_RegionsFromQualifiedCandidates ==
  pc \in {"grid", "walk", "done"} =>
     /\ Len(tables_joints) = Cardinality(Accepted)
     /\ \A i \in Accepted :
           LET c == image.contours[i]
               t == tables_joints[Rank(i)]
           IN  /\ Len(t) = Len(c.joints)
               /\ \A j \in 1..Len(t) :
                     /\ Len(t[j]) = Len(c.joints[j])
                     /\ \A k \in 1..Len(t[j]) :
                           /\ t[j][k].x = c.joints[j][k].x + c.off.x
                           /\ t[j][k].y = c.joints[j][k].y + c.off.y

\* four candidates, one below the area limit and one with 4 joints: the two
\* others are returned in their order, in page coordinates
C19_Witness ==
  /\ pc = "grid"
  /\ Len(image.contours) = 4
  /\ Cardinality(Accepted) = 2
  /\ \E i \in 1..4 : image.contours[i].area < MinArea
  /\ \E i \in 1..4 : /\ image.contours[i].area >= MinArea
                      /\ Len(image.contours[i].joints) = RejectJoints
  /\ Len(tables_joints) = 2
  /\ tables_joints[1][1][1] = Pt(10, 10)
  /\ tables_joints[2][1][1] = Pt(28, 28)

\* C21: from the start of the word walk x_coords and y_coords hold one list
\* per table region, the i-th made of coordinates of the i-th region's joints,
\* and no step of the walk changes them or the regions; cur_table_idx is -1 or
\* an index of a region, and after a non-blank word prev_table_idx is the
\* table index computed for that word.
GridsPerRegion ==
  pc \in {"walk", "done"} =>
     /\ Len(x_coords) = Len(tables_joints)
     /\ Len(y_coords) = Len(tables_joints)
     /\ \A i \in 1..Len(tables_joints) :
           /\ x_coords[i] # <<>>
           /\ y_coords[i] # <<>>
           /\ Range(x_coords[i]) \subseteq XLines(tables_joints[i])
           /\ Range(y_coords[i]) \subseteq YLines(tables_joints[i])
     /\ cur_table_idx \in {-1} \cup (0..(Len(x_coords) - 1))
     /\ kind = "text" => prev_table_idx = cur_table_idx

GridsFrozen ==
  pc = "walk" =>
     /\ x_coords' = x_coords
     /\ y_coords' = y_coords
     /\ tables_joints' = tables_joints

C21_GridsFinalBeforeWalk == []GridsPerRegion /\ [][GridsFrozen]_vars

\* the walk over a page with two regions, after a second word, in table 1
C21_Witness ==
  /\ pc = "walk"
  /\ Len(tables_joints) = 2
  /\ Len(x_coords) = 2
  /\ text_words >= 2
  /\ kind = "text"
  /\ cur_table_idx = 1
  /\ prev_table_idx = 1

\* C22: the word spans of the output are one per non-blank word, in the
\* order of the stream, whatever the words' table membership; the step of an
\* empty or white-space word writes nothing and leaves the table, row and
\* column cursor and the counters as they were.
IsSpan(t) == t.k = "word"

SpansOf(s) == SelectSeq(s, IsSpan)

SpansInOrder ==
  LET sp == SpansOf(abbyy_str)
  IN  /\ Len(sp) = text_words
      /\ \A i, j \in 1..Len(sp) : i < j => sp[i].n < sp[j].n
      /\ kind = "text" => sp[Len(sp)].n = seen

BlankStepSilent ==
  (seen' = seen + 1 /\ kind' \in {"empty", "blank"}) =>
     /\ abbyy_str' = abbyy_str
     /\ prev_table_idx' = prev_table_idx
     /\ prev_row' = prev_row
     /\ prev_col' = prev_col
     /\ lcnt' = lcnt
     /\ pcnt' = pcnt
     /\ bcnt' = bcnt

C22_OneSpanPerWordInOrder == []SpansInOrder /\ [][BlankStepSilent]_vars

\* a finished page of two non-blank words, one in a table and one outside,
\* and a skipped word
C22_Witness ==
  /\ pc = "done"
  /\ seen = 3
  /\ text_words = 2
  /\ Len(SpansOf(abbyy_str)) = 2
  /\ Opens(abbyy_str, "td")
  /\ Opens(abbyy_str, "line")

\* C23: the finished page of a readable image without table regions has no
\* table, tbody, tr or td tag, and its block, paragraph and line tags are
\* balanced: every open tag is closed, innermost first, and nothing is closed
\* that is not open.
C23_FlowBalancedWithoutTables ==
  (pc = "done" /\ image.loaded /\ tables_joints = <<>>) =>
     /\ \A i \in 1..Len(abbyy_str) :
           abbyy_str[i].e \notin {"table", "tbody", "tr", "td"}
     /\ WellFormed(abbyy_str)

\* C24: no two block open tags of a page carry the same block counter, no
\* two paragraph open tags the same paragraph counter and no two line open
\* tags the same line counter.
C24_IdentifiersUnique ==
  \A i, j \in 1..Len(abbyy_str) :
     (/\ i < j
      /\ abbyy_str[i].k = "open"
      /\ abbyy_str[j].k = "open"
      /\ abbyy_str[i].e \in {"block", "p", "line"}
      /\ abbyy_str[i].e = abbyy_str[j].e) => abbyy_str[i].n # abbyy_str[j].n

\* C25: a word in a table with row index r >= 1 and column index c >= 1 has
\* its span written while the row cursor prev_row is r and the column cursor
\* prev_col is c (the cursors are not assigned after the span).
C25_SpanInOwnCell ==
  (kind = "text" /\ cur_table_idx # -1 /\ cur_row >= 1 /\ cur_col >= 1) =>
     (prev_row = cur_row /\ prev_col = cur_col)

\* C26: the word walk ends: every loop iteration moves the iterator on by one
\* word, the end of the stream is reached, and the page close tag is written
\* once, as the last tag, after the last word.
IterationAdvances == (pc = "walk" /\ pc' = "walk") => seen' = seen + 1

PageClosedOnce ==
  pc = "done" =>
     /\ CountIn(abbyy_str, Close("page")) = 1
     /\ abbyy_str[Len(abbyy_str)] = Close("page")

C26_WalkTerminates ==
  /\ [][IterationAdvances]_vars
  /\ (pc = "walk") ~> (pc = "done")
  /\ []PageClosedOnce

\* a finished page after a walk over skipped and non-blank words
C26_Witness ==
  /\ pc = "done"
  /\ seen >= 3
  /\ text_words >= 1
  /\ seen > text_words
  /\ abbyy_str[Len(abbyy_str)] = Close("page")
====
